---- MODULE Spec2Model ----
(***************************************************************************)
(* Inventory reconciliation of stocksync: CSV uploads merged per channel   *)
(* into per-SKU products, the whole-tenant sweep (reconcileInventory),     *)
(* manual product edits, settings updates and the low-stock notification   *)
(* paths.  Requests are processes whose steps are the store calls between  *)
(* two awaits of the route handlers (registerRoutes).                      *)
(***************************************************************************)
EXTENDS Integers, Sequences, FiniteSets, TLC

\* ------------------------------------------------------------------ bounds
\* number of requests (uploads, edits, settings updates, checks) started
MaxOps == 4
\* number of data rows of one uploaded file
MaxRows == 1
\* number of uploads started when uploads may overlap
MaxUploads == 3
\* number of data rows of one uploaded file when store calls may fail
MaxBatchRows == 2
\* number of requests started when store calls may fail
MaxFaultyOps == 3
\* number of requests started when uploads come from several sellers
MaxTenantOps == 3

\* --------------------------------------------------------------- constants
\* default settings of a seller: globalLowStockThreshold
DefaultThreshold == 10

Procs == {"r1", "r2"}
ProcOrder == [p \in Procs |-> IF p = "r1" THEN 1 ELSE 2]
\* sellers in getAllSellers order; the first is the demo@seller.com default
SellerSeq == <<"demo", "other">>
Sellers == {SellerSeq[i] : i \in 1..Len(SellerSeq)}
DefaultSeller == SellerSeq[1]
Channels == {"Amazon", "Shopify"}
\* SKU and product name cells of a CSV row, as character sequences
Skus == { <<" ">>, <<"a">>, <<" ", "b">> }
Names == { <<>>, <<"n">> }
NoSupplier == "none"
SupplierIds == {NoSupplier, "sup"}
\* quantity cells of a CSV row, as character sequences
QtyTexts == { <<>>, <<"5">>, <<"1", "0">>, <<"5", "x">>, <<"x">>, <<"-", "5">> }
FileRows == [sku : Skus, productName : Names, quantity : QtyTexts]
\* bodies of PUT /api/settings
SettingThresholds == {0, 5}
\* values of PUT /api/products/:id bodies
EditQuantities == {10, 11}
EditThresholds == {0, 5}
EditChannelLists ==
  { << [channel |-> "Amazon", quantity |-> 5] >>,
    << [channel |-> "Amazon", quantity |-> 5], [channel |-> "Amazon", quantity |-> 5] >> }

VARIABLES
  products,       \* storage.products in insertion order; the id is the index
  settings,       \* storage.settingsMap: seller -> settings
  notifications,  \* storage.notificationsMap in insertion order
  outbox,         \* alerts handed to emailService.sendLowStockAlert
  proc,           \* the requests in flight
  ops,            \* requests started so far
  csvUploads      \* storage.csvUploads in insertion order; the id is the index

vars == <<products, settings, notifications, outbox, proc, ops, csvUploads>>

\* ----------------------------------------------------------------- helpers
RECURSIVE SumQuantity(_)
\* channels.reduce((sum, c) => sum + c.quantity, 0)
SumQuantity(chs) ==
  IF chs = <<>> THEN 0 ELSE Head(chs).quantity + SumQuantity(Tail(chs))

RECURSIVE FilterOut(_, _)
\* channels.filter(c => c.channel !== channel)
FilterOut(chs, ch) ==
  IF chs = <<>> THEN <<>>
  ELSE IF Head(chs).channel = ch THEN FilterOut(Tail(chs), ch)
  ELSE <<Head(chs)>> \o FilterOut(Tail(chs), ch)

RECURSIVE OnlyChannel(_, _)
\* the entries of one channel, in list order
OnlyChannel(chs, ch) ==
  IF chs = <<>> THEN <<>>
  ELSE IF Head(chs).channel = ch THEN <<Head(chs)>> \o OnlyChannel(Tail(chs), ch)
  ELSE OnlyChannel(Tail(chs), ch)

\* a || b on numbers: 0 is falsy
OrElse(a, b) == IF a # 0 THEN a ELSE b

Digits == {"0", "1", "2", "3", "4", "5", "6", "7", "8", "9"}
DigitValue(c) ==
  CASE c = "0" -> 0 [] c = "1" -> 1 [] c = "2" -> 2 [] c = "3" -> 3 [] c = "4" -> 4
    [] c = "5" -> 5 [] c = "6" -> 6 [] c = "7" -> 7 [] c = "8" -> 8 [] c = "9" -> 9

RECURSIVE TrimLeft(_)
TrimLeft(s) == IF s # <<>> /\ Head(s) = " " THEN TrimLeft(Tail(s)) ELSE s

RECURSIVE TrimRight(_)
TrimRight(s) ==
  IF s # <<>> /\ s[Len(s)] = " " THEN TrimRight(SubSeq(s, 1, Len(s) - 1)) ELSE s

\* String.prototype.trim
Trim(s) == TrimRight(TrimLeft(s))

RECURSIVE DigitPrefix(_, _, _)
\* the leading digits of s: [count, value]
DigitPrefix(s, n, acc) ==
  IF s # <<>> /\ Head(s) \in Digits
  THEN DigitPrefix(Tail(s), n + 1, acc * 10 + DigitValue(Head(s)))
  ELSE [count |-> n, value |-> acc]

\* parseInt(text): leading whitespace skipped, optional sign, leading digits;
\* NaN when there is no digit
ParseInt(text) ==
  LET s == TrimLeft(text)
      neg == s # <<>> /\ Head(s) = "-"
      body == IF s # <<>> /\ Head(s) \in {"-", "+"} THEN Tail(s) ELSE s
      d == DigitPrefix(body, 0, 0)
  IN [nan |-> d.count = 0, value |-> IF neg THEN 0 - d.value ELSE d.value]

\* the map of parseCSVIntelligently on one parsed row: the mapped cells, trimmed
\* (a cell that is empty leaves its field unset, which the filter reads as empty)
TransformRow(r) ==
  [sku |-> Trim(r.sku), productName |-> Trim(r.productName), quantity |-> Trim(r.quantity)]

\* the filter of parseCSVIntelligently on a transformed row
IsValidRow(row) ==
  /\ row.sku # <<>>
  /\ row.productName # <<>>
  /\ row.quantity # <<>>
  /\ ~ParseInt(row.quantity).nan

RECURSIVE TransformRowsReversed(_)
\* variant: the valid rows come out last row first
TransformRowsReversed(rows) ==
  IF rows = <<>> THEN <<>>
  ELSE LET t == TransformRow(Head(rows))
       IN TransformRowsReversed(Tail(rows)) \o (IF IsValidRow(t) THEN <<t>> ELSE <<>>)

RECURSIVE TransformRows(_)
\* parsedData.map(...).filter(...): the valid rows, in file order
TransformRows(rows) ==
  IF rows = <<>> THEN <<>>
  ELSE LET t == TransformRow(Head(rows))
       IN (IF IsValidRow(t) THEN <<t>> ELSE <<>>) \o TransformRows(Tail(rows))

\* parseInt(row.quantity) || 0
RowQuantity(row) ==
  LET v == ParseInt(row.quantity) IN IF v.nan THEN 0 ELSE v.value

Files == UNION { [1..n -> FileRows] : n \in 0..MaxRows }

\* ------------------------------------------------------------------- store
ProductIds == 1..Len(products)

RECURSIVE FindBySkuAnySeller(_, _, _, _)
\* variant: the lookup by sku does not look at the seller
FindBySkuAnySeller(store, i, sellerId, sku) ==
  IF i > Len(store) THEN <<>>
  ELSE IF store[i].sku = sku
       THEN << [id |-> i, product |-> store[i]] >>
       ELSE FindBySkuAnySeller(store, i + 1, sellerId, sku)

RECURSIVE FindBySku(_, _, _, _)
\* getProductBySku: the first product of the seller with the sku, <<>> if none
FindBySku(store, i, sellerId, sku) ==
  IF i > Len(store) THEN <<>>
  ELSE IF store[i].sellerId = sellerId /\ store[i].sku = sku
       THEN << [id |-> i, product |-> store[i]] >>
       ELSE FindBySku(store, i + 1, sellerId, sku)

getProductBySku(sellerId, sku) == FindBySku(products, 1, sellerId, sku)

RECURSIVE SnapshotOf(_, _, _)
SnapshotOf(store, i, sellerId) ==
  IF i > Len(store) THEN <<>>
  ELSE (IF store[i].sellerId = sellerId THEN << [id |-> i, product |-> store[i]] >> ELSE <<>>)
       \o SnapshotOf(store, i + 1, sellerId)

\* getProductsBySellerId: the seller's products as read at the call
getProductsBySellerId(sellerId) == SnapshotOf(products, 1, sellerId)

\* ------------------------------------------------- numbers (binary64)
\* A JavaScript number that is not zero is 1.f * 2^exp with 52 fraction bits:
\* man holds the 53 significant bits, most significant first.  The scores of
\* the detection are positive, so no sign is kept.
MantissaBits == 53

Zeros(n) == [i \in 1..n |-> 0]
DoubleZero == [exp |-> 0, man |-> Zeros(MantissaBits)]
IsZero(a) == a.man[1] = 0

\* the sum bit and the carry of one position
AddBit(t) == [bits |-> <<t % 2>>, carry |-> t \div 2]
\* the sum of a range from the sums of its two halves
JoinHalves(high, low) == [bits |-> high.bits \o low.bits, carry |-> high.carry]

\* x + y + carry over the positions lo..hi of two bit strings: the sum bits of
\* these positions and the carry out of them.  The low half is added first and
\* its carry handed to the high half.
RECURSIVE AddRange(_, _, _, _, _)
AddHigh(x, y, lo, mid, low) ==
  IF low.carry = 0 THEN JoinHalves(AddRange(x, y, lo, mid, 0), low)
  ELSE JoinHalves(AddRange(x, y, lo, mid, 1), low)
AddRange(x, y, lo, hi, carry) ==
  IF lo = hi THEN AddBit(x[lo] + y[lo] + carry)
  ELSE AddHigh(x, y, lo, (lo + hi) \div 2, AddRange(x, y, (lo + hi) \div 2 + 1, hi, carry))

WithCarry(sum) == <<sum.carry>> \o sum.bits
\* x + y + carry of two bit strings of one length, one bit longer
AddBits(x, y, carry) == WithCarry(AddRange(x, y, 1, Len(x), carry))

\* the bit string plus one, one bit longer
Increment(x) == AddBits(x, Zeros(Len(x)), 1)

AnyOne(bits) == \E i \in 1..Len(bits) : bits[i] = 1

\* the significand after the increment: a carry out of it moves the exponent
Carried(exp, inc) ==
  IF inc[1] = 1 THEN [exp |-> exp + 1, man |-> SubSeq(inc, 1, MantissaBits)]
  ELSE [exp |-> exp, man |-> Tail(inc)]

\* round to nearest, ties to even: kept are the significant bits, rest the
\* bits below them
RoundKept(exp, kept, rest) ==
  IF /\ rest # <<>>
     /\ rest[1] = 1
     /\ (AnyOne(Tail(rest)) \/ kept[MantissaBits] = 1)
  THEN Carried(exp, Increment(kept))
  ELSE [exp |-> exp, man |-> kept]

\* bits starts with a 1 and is at least MantissaBits long; exp is the exponent
\* of its first bit
RoundBits(exp, bits) ==
  RoundKept(exp, SubSeq(bits, 1, MantissaBits), SubSeq(bits, MantissaBits + 1, Len(bits)))

\* the exact sum, one bit longer than its terms, rounded
RoundSum(exp, sum) ==
  IF sum[1] = 1 THEN RoundBits(exp + 1, sum) ELSE RoundBits(exp, Tail(sum))

\* hi + lo where hi.exp - lo.exp = d >= 0: the significands are aligned
AddAligned(hi, lo, d) ==
  RoundSum(hi.exp, AddBits(hi.man \o Zeros(d), Zeros(d) \o lo.man, 0))

\* a + b
DoubleAdd(a, b) ==
  IF IsZero(a) THEN b
  ELSE IF IsZero(b) THEN a
  ELSE IF a.exp >= b.exp THEN AddAligned(a, b, a.exp - b.exp)
  ELSE AddAligned(b, a, b.exp - a.exp)

\* x < y on the significands of equal exponent
BitsLess(x, y) ==
  \E i \in 1..Len(x) : x[i] < y[i] /\ \A k \in 1..(i - 1) : x[k] = y[k]

\* a < b
DoubleLess(a, b) ==
  IF IsZero(b) THEN FALSE
  ELSE IF IsZero(a) THEN TRUE
  ELSE IF a.exp # b.exp THEN a.exp < b.exp
  ELSE BitsLess(a.man, b.man)

\* 2^k modulo den
RECURSIVE Pow2Mod(_, _)
Pow2Mod(k, den) ==
  IF k = 0 THEN 1 % den
  ELSE (Pow2Mod(k \div 2, den) * Pow2Mod(k \div 2, den) * (IF k % 2 = 1 THEN 2 ELSE 1)) % den

\* what is left of num / den after the first k bits of its binary expansion
FractionRest(num, den, k) == (num * Pow2Mod(k, den)) % den
\* the k-th bit of the binary expansion of num / den (0 < num < den)
FractionBit(num, den, k) == IF 2 * FractionRest(num, den, k - 1) >= den THEN 1 ELSE 0
\* the zero bits before the first one bit of num / den
LeadingZeros(num, den) ==
  CHOOSE n \in 0..MantissaBits :
    /\ FractionBit(num, den, n + 1) = 1
    /\ \A k \in 1..n : FractionBit(num, den, k) = 0
\* MantissaBits + 1 bits of num / den after its first z bits, and one bit that
\* tells whether anything is left after them
FractionFrom(num, den, z) ==
  [k \in 1..(MantissaBits + 1) |-> FractionBit(num, den, z + k)]
    \o (IF FractionRest(num, den, z + MantissaBits + 1) # 0 THEN <<1>> ELSE <<0>>)
DoubleFrom(num, den, z) == RoundBits(-(z + 1), FractionFrom(num, den, z))

\* the number a decimal literal num/den (0 < num < den) denotes: the nearest
\* binary64 value
DoubleOf(num, den) == DoubleFrom(num, den, LeadingZeros(num, den))

\* ------------------------------------------------------ format detection
\* Texts are sequences of characters.
UpperCase ==
  <<"A", "B", "C", "D", "E", "F", "G", "H", "I", "J", "K", "L", "M",
    "N", "O", "P", "Q", "R", "S", "T", "U", "V", "W", "X", "Y", "Z">>
LowerCase ==
  <<"a", "b", "c", "d", "e", "f", "g", "h", "i", "j", "k", "l", "m",
    "n", "o", "p", "q", "r", "s", "t", "u", "v", "w", "x", "y", "z">>
ToLowerChar(c) ==
  IF \E i \in 1..Len(UpperCase) : UpperCase[i] = c
  THEN LowerCase[CHOOSE i \in 1..Len(UpperCase) : UpperCase[i] = c]
  ELSE c
\* String.prototype.toLowerCase
ToLowerCase(s) == [i \in 1..Len(s) |-> ToLowerChar(s[i])]
\* String.prototype.includes
Includes(s, sub) ==
  \E i \in 0..(Len(s) - Len(sub)) : SubSeq(s, i + 1, i + Len(sub)) = sub
IncludesAny(s, subs) == \E sub \in subs : Includes(s, sub)
\* header.toLowerCase().trim()
Normalized(header) == Trim(ToLowerCase(header))

\* the bound on the number of columns of a header row
MaxHeaders == 3
\* the header cells a file may carry
HeaderCells ==
  { <<"S", "K", "U">>,
    <<"P", "r", "o", "d", "u", "c", "t", " ", "N", "a", "m", "e">>,
    <<"Q", "u", "a", "n", "t", "i", "t", "y">>,
    <<"V", "a", "r", "i", "a", "n", "t", " ", "S", "K", "U">>,
    <<"T", "i", "t", "l", "e">>,
    <<"V", "a", "r", "i", "a", "n", "t", " ", "I", "n", "v", "e", "n", "t", "o", "r", "y", " ", "Q", "t", "y">>,
    <<"A", "S", "I", "N">>,
    <<" ", "s", "k", "u">>,
    <<"I", "t", "e", "m">>,
    <<"I", "t", "e", "m", "s">>,
    <<"P", "r", "o", "d", "u", "c", "t", " ", "I", "D">>,
    <<"S", "t", "o", "c", "k", " ", "C", "o", "u", "n", "t">> }
HeaderLists == UNION { [1..n -> HeaderCells] : n \in 1..MaxHeaders }
\* the names of the uploaded files
Filenames ==
  { <<"d", "a", "t", "a", ".", "c", "s", "v">>,
    <<"a", "m", "z", ".", "c", "s", "v">>,
    <<"S", "h", "o", "p", ".", "c", "s", "v">>,
    <<"s", "h", "o", "p", "a", "m", "z", ".", "c", "s", "v">> }

\* formatSignatures: the required headers and the indicators of a platform
AmazonSignature ==
  [sku |-> <<"s", "k", "u">>, productName |-> <<"p", "r", "o", "d", "u", "c", "t", " ", "n", "a", "m", "e">>,
   quantity |-> <<"q", "u", "a", "n", "t", "i", "t", "y">>,
   indicators |-> { <<"f", "u", "l", "f", "i", "l", "l", "m", "e", "n", "t">>,
     <<"a", "s", "i", "n">>,
     <<"f", "n", "s", "k", "u">> }]
ShopifySignature ==
  [sku |-> <<"v", "a", "r", "i", "a", "n", "t", " ", "s", "k", "u">>, productName |-> <<"t", "i", "t", "l", "e">>,
   quantity |-> <<"v", "a", "r", "i", "a", "n", "t", " ", "i", "n", "v", "e", "n", "t", "o", "r", "y", " ", "q", "t", "y">>,
   indicators |-> { <<"v", "a", "r", "i", "a", "n", "t">>,
     <<"h", "a", "n", "d", "l", "e">>,
     <<"o", "p", "t", "i", "o", "n">> }]

NoMappings == [sku |-> <<>>, productName |-> <<>>, quantity |-> <<>>]
\* the score a required header adds, the score an indicator adds
RequiredScore == DoubleOf(3, 10)
IndicatorScore == DoubleOf(1, 10)
NoScore == [score |-> DoubleZero, mappings |-> NoMappings]

\* a direct match: the header is the required header of the field
MatchRequired(acc, normalized, header, required, field) ==
  IF normalized = required
  THEN [score |-> DoubleAdd(acc.score, RequiredScore),
        mappings |-> [acc.mappings EXCEPT ![field] = header]]
  ELSE acc

\* the indicator bonus: the header contains one of the indicators
MatchIndicators(acc, normalized, indicators) ==
  IF IncludesAny(normalized, indicators)
  THEN [acc EXCEPT !.score = DoubleAdd(acc.score, IndicatorScore)]
  ELSE acc

\* one header of a signature's loop: the three direct matches in turn, then
\* the indicator bonus
ScoreNormalized(acc, header, normalized, signature) ==
  MatchIndicators(
    MatchRequired(
      MatchRequired(
        MatchRequired(acc, normalized, header, signature.sku, "sku"),
        normalized, header, signature.productName, "productName"),
      normalized, header, signature.quantity, "quantity"),
    normalized, signature.indicators)

ScoreHeader(acc, header, signature) ==
  ScoreNormalized(acc, header, Normalized(header), signature)

\* a signature's loop over the headers
RECURSIVE ScoreHeaders(_, _, _)
ScoreHeaders(acc, headers, signature) ==
  IF headers = <<>> THEN acc
  ELSE ScoreHeaders(ScoreHeader(acc, Head(headers), signature), Tail(headers), signature)

amazonScore(headers) == ScoreHeaders(NoScore, headers, AmazonSignature)
shopifyScore(headers) == ScoreHeaders(NoScore, headers, ShopifySignature)

\* the keywords of smartColumnMapping
SkuKeywords ==
  { <<"s", "k", "u">>,
    <<"i", "d">>,
    <<"c", "o", "d", "e">>,
    <<"p", "r", "o", "d", "u", "c", "t", " ", "i", "d">> }
NameKeywords ==
  { <<"n", "a", "m", "e">>,
    <<"t", "i", "t", "l", "e">>,
    <<"p", "r", "o", "d", "u", "c", "t">>,
    <<"i", "t", "e", "m", " ", "n", "a", "m", "e">>,
    <<"d", "e", "s", "c", "r", "i", "p", "t", "i", "o", "n">> }
QuantityKeywords ==
  { <<"q", "u", "a", "n", "t", "i", "t", "y">>,
    <<"q", "t", "y">>,
    <<"s", "t", "o", "c", "k">>,
    <<"i", "n", "v", "e", "n", "t", "o", "r", "y">>,
    <<"u", "n", "i", "t", "s">>,
    <<"c", "o", "u", "n", "t">>,
    <<"a", "v", "a", "i", "l", "a", "b", "l", "e">> }
MatchesSku(normalized) ==
  IncludesAny(normalized, SkuKeywords) \/ normalized = <<"i", "t", "e", "m">>
MatchesName(normalized) == IncludesAny(normalized, NameKeywords)
MatchesQuantity(normalized) == IncludesAny(normalized, QuantityKeywords)

\* variant: a later header replaces the column an earlier one filled
MapFieldOverwriting(mappings, field, header, matches) ==
  IF matches THEN [mappings EXCEPT ![field] = header] ELSE mappings

\* one column of smartColumnMapping: filled once, by the first header that matches
MapField(mappings, field, header, matches) ==
  IF mappings[field] = <<>> /\ matches
  THEN [mappings EXCEPT ![field] = header]
  ELSE mappings

\* one header of smartColumnMapping: sku, then name, then quantity
MapNormalized(mappings, header, normalized) ==
  MapField(
    MapField(
      MapField(mappings, "sku", header, MatchesSku(normalized)),
      "productName", header, MatchesName(normalized)),
    "quantity", header, MatchesQuantity(normalized))

MapHeader(mappings, header) == MapNormalized(mappings, header, Normalized(header))

RECURSIVE MapHeaders(_, _)
MapHeaders(mappings, headers) ==
  IF headers = <<>> THEN mappings
  ELSE MapHeaders(MapHeader(mappings, Head(headers)), Tail(headers))

smartColumnMapping(headers) == MapHeaders(NoMappings, headers)

NoChannel == "null"
GuessFromLower(lower) ==
  IF Includes(lower, <<"a", "m", "a", "z", "o", "n">>) \/ Includes(lower, <<"a", "m", "z">>) THEN "Amazon"
  ELSE IF Includes(lower, <<"s", "h", "o", "p", "i", "f", "y">>) \/ Includes(lower, <<"s", "h", "o", "p">>) THEN "Shopify"
  ELSE NoChannel
guessChannelFromFilename(filename) == GuessFromLower(ToLowerCase(filename))

DetectedFormat(format, channel, confidence, mappings) ==
  [format |-> format, channel |-> channel, confidence |-> confidence, mappings |-> mappings]

\* the confidences of the detection: of no match, of the generic mapping, the
\* bonus of a file name that names a channel, and the confidence below which a
\* platform match is not trusted
InitialConfidence == DoubleOf(3, 10)
GenericConfidence == DoubleOf(6, 10)
FilenameBonus == DoubleOf(2, 10)
TrustedConfidence == DoubleOf(7, 10)

\* bestMatch before any signature is scored
InitialMatch == DetectedFormat("generic", "Amazon", InitialConfidence, NoMappings)

\* if (score > bestMatch.confidence) bestMatch = the platform's format
BetterMatch(bestMatch, scored, format, channel) ==
  IF DoubleLess(bestMatch.confidence, scored.score)
  THEN DetectedFormat(format, channel, scored.score, scored.mappings)
  ELSE bestMatch

\* guessChannelFromFilename('') || 'Amazon'
ChannelOrAmazon(guessed) == IF guessed # NoChannel THEN guessed ELSE "Amazon"

\* if (bestMatch.confidence < 0.7) fall back to the generic mapping
GenericFallback(bestMatch, headers) ==
  IF DoubleLess(bestMatch.confidence, TrustedConfidence)
  THEN DetectedFormat("generic", ChannelOrAmazon(guessChannelFromFilename(<<>>)),
                      GenericConfidence, smartColumnMapping(headers))
  ELSE bestMatch

intelligentFormatDetection(headers) ==
  GenericFallback(
    BetterMatch(BetterMatch(InitialMatch, amazonScore(headers), "amazon", "Amazon"),
                shopifyScore(headers), "shopify", "Shopify"),
    headers)

\* variant: the file name overrides the channel of every detected format
EnhanceWithFilenameAlways(detectedFormat, filenameChannel) ==
  IF filenameChannel # NoChannel
  THEN [detectedFormat EXCEPT !.channel = filenameChannel,
                              !.confidence = DoubleAdd(detectedFormat.confidence, FilenameBonus)]
  ELSE detectedFormat

\* the look at the file name: a generic format takes the channel the name gives
EnhanceWithFilename(detectedFormat, filenameChannel) ==
  IF detectedFormat.format = "generic" /\ filenameChannel # NoChannel
  THEN [detectedFormat EXCEPT !.channel = filenameChannel,
                              !.confidence = DoubleAdd(detectedFormat.confidence, FilenameBonus)]
  ELSE detectedFormat

\* parseCSVIntelligently: the detected format of a header row and a file name
FinalDetection(headers, filename) ==
  EnhanceWithFilename(intelligentFormatDetection(headers), guessChannelFromFilename(filename))

NoFormat == DetectedFormat("none", NoChannel, DoubleZero, NoMappings)

\* the answer of POST /api/upload: status code, error text, the two counts
Response(status, error, processedCount, skippedCount) ==
  [status |-> status, error |-> error,
   processedCount |-> processedCount, skippedCount |-> skippedCount]

NoResponse == Response(0, "", 0, 0)

IdleProc ==
  [pc |-> "idle", op |-> "none", sellerId |-> DefaultSeller, channel |-> "Amazon",
   rows |-> <<>>, row |-> <<>>, existing |-> <<>>,
   todo |-> <<>>, product |-> <<>>, sellers |-> <<>>,
   globalThreshold |-> 0, emailNotifications |-> FALSE,
   file |-> <<>>, dataRows |-> 0, uploadId |-> 0, processedCount |-> 0, skippedCount |-> 0,
   response |-> NoResponse,
   failure |-> "none",   \* what made the request fail: "parse", "store" or "none"
   headers |-> <<>>, filename |-> <<>>, detectedFormat |-> NoFormat]

Init ==
  /\ products = <<>>
  /\ settings = [s \in Sellers |->
                   [globalLowStockThreshold |-> DefaultThreshold, emailNotifications |-> FALSE]]
  /\ notifications = <<>>
  /\ outbox = <<>>
  /\ proc = [p \in Procs |-> IdleProc]
  /\ ops = 0
  /\ csvUploads = <<>>


\* -------------------------------------------------------------- row merge
\* variant: the row's quantity is added to the channel's previous quantity
MergeChannelsAdditive(chs, ch, q) ==
  Append(FilterOut(chs, ch),
         [channel |-> ch, quantity |-> q + SumQuantity(OnlyChannel(chs, ch))])

\* existing-product branch: filter out the upload's channel, push the new entry
MergeChannels(chs, ch, q) ==
  Append(FilterOut(chs, ch), [channel |-> ch, quantity |-> q])

\* the comparison of the row merge (strict)
MergeIsLowStock(total, threshold) == total < threshold

\* storage.updateProduct(id, fields): only the given fields are replaced
UpdateMerge(store, id, chs, total, low) ==
  [store EXCEPT ![id] = [@ EXCEPT !.channels = chs, !.totalQuantity = total, !.isLowStock = low]]

\* storage.createProduct of the new-product branch
NewProduct(sellerId, sku, ch, q, globalThreshold) ==
  [sellerId |-> sellerId, sku |-> sku,
   channels |-> << [channel |-> ch, quantity |-> q] >>,
   totalQuantity |-> q,
   lowStockThreshold |-> globalThreshold,
   isLowStock |-> MergeIsLowStock(q, globalThreshold),
   supplierId |-> NoSupplier]

\* the store after one row is merged, given what getProductBySku returned
MergeRow(store, found, sellerId, ch, row, globalThreshold) ==
  LET q == RowQuantity(row) IN
  IF found # <<>>
  THEN LET existing == found[1].product
           updatedChannels == MergeChannels(existing.channels, ch, q)
           total == SumQuantity(updatedChannels)
           low == MergeIsLowStock(total, OrElse(existing.lowStockThreshold, globalThreshold))
       IN UpdateMerge(store, found[1].id, updatedChannels, total, low)
  ELSE Append(store, NewProduct(sellerId, row.sku, ch, q, globalThreshold))

\* ------------------------------------------------------------------ sweep
\* threshold used by the sweep for one product
SweepThreshold(product, globalThreshold) ==
  OrElse(product.lowStockThreshold, globalThreshold)

\* variant: the channel sum is added to the stored total
SweepTotalAccumulated(product) == product.totalQuantity + SumQuantity(product.channels)

\* totalQuantity recomputed by the sweep
SweepTotal(product) == SumQuantity(product.channels)

\* the comparison of the sweep (inclusive)
SweepIsLowStock(total, threshold) == total <= threshold

\* storage.updateProduct(product.id, {totalQuantity, isLowStock, lowStockThreshold})
UpdateSweep(store, id, total, low, threshold) ==
  [store EXCEPT ![id] = [@ EXCEPT !.totalQuantity = total, !.isLowStock = low,
                                  !.lowStockThreshold = threshold]]

\* variant: the sweep alerts without looking at settings.emailNotifications
SweepShouldNotifyUngated(wasLowStock, isLowStock, supplierId, emailNotifications) ==
  isLowStock /\ supplierId # NoSupplier

\* variant: the sweep alerts only when the product was not low-stock before
SweepShouldNotifyOnTransition(wasLowStock, isLowStock, supplierId, emailNotifications) ==
  ~wasLowStock /\ isLowStock /\ supplierId # NoSupplier /\ emailNotifications

\* the condition under which the sweep hands an alert to the email service
SweepShouldNotify(wasLowStock, isLowStock, supplierId, emailNotifications) ==
  isLowStock /\ supplierId # NoSupplier /\ emailNotifications

\* the store after the sweep has handled one product of its snapshot
SweepProduct(store, snap, globalThreshold) ==
  LET total == SweepTotal(snap.product)
      threshold == SweepThreshold(snap.product, globalThreshold)
  IN UpdateSweep(store, snap.id, total, SweepIsLowStock(total, threshold), threshold)

RECURSIVE SweepAll(_, _, _)
\* the store after the loop of reconcileInventory over a snapshot
SweepAll(store, todo, globalThreshold) ==
  IF todo = <<>> THEN store
  ELSE SweepAll(SweepProduct(store, Head(todo), globalThreshold), Tail(todo), globalThreshold)

\* reconcileInventory(sellerId, globalThreshold) run alone on a store
reconcileInventory(store, sellerId, globalThreshold) ==
  SweepAll(store, SnapshotOf(store, 1, sellerId), globalThreshold)

\* createNotification of the sweep and of the product edit
AlertRecord(sellerId, id, type, ok) ==
  [sellerId |-> sellerId, productId |-> id, type |-> type,
   status |-> IF ok THEN "sent" ELSE "failed"]

Mail(sellerId, id, source, ok) ==
  [sellerId |-> sellerId, productId |-> id, source |-> source, delivered |-> ok]


\* ----------------------------------------------------------- product edit
PatchFields == {"channels", "totalQuantity", "lowStockThreshold", "isLowStock", "supplierId"}

\* a body of PUT /api/products/:id: the fields it gives, with their values
Patch(fields, chs, total, threshold, low, supplierId) ==
  [fields |-> fields, channels |-> chs, totalQuantity |-> total,
   lowStockThreshold |-> threshold, isLowStock |-> low, supplierId |-> supplierId]

\* bodies accepted by insertProductSchema.partial(): supplier assignment, manual
\* quantity, threshold and flag edits, quantity with supplier, raw channel lists
Patches ==
  {Patch({"supplierId"}, <<>>, 0, 0, FALSE, s) : s \in SupplierIds}
  \cup {Patch({"totalQuantity"}, <<>>, q, 0, FALSE, NoSupplier) : q \in EditQuantities}
  \cup {Patch({"lowStockThreshold"}, <<>>, 0, t, FALSE, NoSupplier) : t \in EditThresholds}
  \cup {Patch({"isLowStock"}, <<>>, 0, 0, b, NoSupplier) : b \in BOOLEAN}
  \cup {Patch({"totalQuantity", "supplierId"}, <<>>, q, 0, FALSE, "sup") : q \in EditQuantities}
  \cup {Patch({"channels"}, chs, 0, 0, FALSE, NoSupplier) : chs \in EditChannelLists}

\* { ...existing, ...product } of storage.updateProduct
ApplyPatch(product, patch) ==
  [product EXCEPT
     !.channels = IF "channels" \in patch.fields THEN patch.channels ELSE @,
     !.totalQuantity = IF "totalQuantity" \in patch.fields THEN patch.totalQuantity ELSE @,
     !.lowStockThreshold = IF "lowStockThreshold" \in patch.fields THEN patch.lowStockThreshold ELSE @,
     !.isLowStock = IF "isLowStock" \in patch.fields THEN patch.isLowStock ELSE @,
     !.supplierId = IF "supplierId" \in patch.fields THEN patch.supplierId ELSE @]

\* isCurrentlyLowStock of the edit
EditIsLowStock(product, globalThreshold) ==
  OrElse(product.totalQuantity, 0) <= OrElse(product.lowStockThreshold, globalThreshold)

\* variant: no re-alert on a manual quantity edit of an already low product
EditShouldNotifyOnChange(emailNotifications, supplierId, wasLowStock, hadSupplier, isCurrentlyLowStock, manualUpdate) ==
  /\ emailNotifications
  /\ supplierId # NoSupplier
  /\ isCurrentlyLowStock
  /\ (~wasLowStock \/ ~hadSupplier)

\* shouldSendNotification of the edit
EditShouldNotify(emailNotifications, supplierId, wasLowStock, hadSupplier, isCurrentlyLowStock, manualUpdate) ==
  LET becameLowStock == ~wasLowStock /\ isCurrentlyLowStock
      supplierAdded == ~hadSupplier /\ supplierId # NoSupplier
      wasAlreadyLowAndHasSupplier == wasLowStock /\ isCurrentlyLowStock /\ supplierId # NoSupplier
  IN /\ emailNotifications
     /\ supplierId # NoSupplier
     /\ \/ becameLowStock
        \/ supplierAdded /\ isCurrentlyLowStock
        \/ wasAlreadyLowAndHasSupplier /\ manualUpdate

\* the product as stored when the edit has answered
EditedProduct(current, patch, globalThreshold) ==
  LET product == ApplyPatch(current, patch)
  IN [product EXCEPT !.isLowStock = EditIsLowStock(product, globalThreshold)]

\* ------------------------------------------------------- low-stock checks
\* isLowStock && product.supplierId of checkAndNotifyLowStock and of the manual check
CheckShouldNotify(product, globalThreshold) ==
  /\ OrElse(product.totalQuantity, 0) <= OrElse(product.lowStockThreshold, globalThreshold)
  /\ product.supplierId # NoSupplier

\* the ids of a snapshot the check alerts for
CheckIds(todo, globalThreshold) ==
  {todo[i].id : i \in {j \in 1..Len(todo) : CheckShouldNotify(todo[j].product, globalThreshold)}}

RECURSIVE CheckMails(_, _, _, _, _)
\* the alerts of one check over a snapshot, in snapshot order
CheckMails(todo, sellerId, globalThreshold, source, oks) ==
  IF todo = <<>> THEN <<>>
  ELSE (IF CheckShouldNotify(Head(todo).product, globalThreshold)
        THEN << Mail(sellerId, Head(todo).id, source, oks[Head(todo).id]) >>
        ELSE <<>>)
       \o CheckMails(Tail(todo), sellerId, globalThreshold, source, oks)

\* the notification record a check writes for an alert: only if (emailSent)
CheckRecords(mail, type) ==
  IF mail.delivered THEN << AlertRecord(mail.sellerId, mail.productId, type, TRUE) >> ELSE <<>>

RECURSIVE CheckNotifications(_, _)
CheckNotifications(mails, type) ==
  IF mails = <<>> THEN <<>>
  ELSE CheckRecords(Head(mails), type) \o CheckNotifications(Tail(mails), type)


\* ---------------------------------------------------------------- actions
Idle(p) == proc[p].pc = "idle"
AllIdle == \A p \in Procs : Idle(p)
\* a request takes the first free slot
Free(p) == Idle(p) /\ \A q \in Procs : Idle(q) => ProcOrder[p] <= ProcOrder[q]
\* every other request in flight is an upload
OthersUpload(p) == \A q \in Procs \ {p} : proc[q].op \in {"none", "upload"}

\* the sweep's reads: getProductsBySellerId, getSellerById, getSettingsBySellerId
EnterSweep(p, op, sellerId, globalThreshold, st) ==
  proc' = [proc EXCEPT ![p] =
             [@ EXCEPT !.pc = "sweep", !.op = op, !.sellerId = sellerId,
                       !.row = <<>>, !.existing = <<>>, !.file = <<>>,
                       !.todo = getProductsBySellerId(sellerId),
                       !.globalThreshold = globalThreshold,
                       !.emailNotifications = st[sellerId].emailNotifications]]

\* storage.createCsvUpload({sellerId, filename, channel, status: "processing"})
CsvUpload(sellerId) == [sellerId |-> sellerId, status |-> "processing"]

\* POST /api/upload up to the row loop: the file is parsed and filtered, the
\* upload record is created
StartUpload(p, sellerId, ch, file) ==
  /\ Free(p)
  /\ ops < MaxOps
  /\ ops' = ops + 1
  /\ csvUploads' = Append(csvUploads, CsvUpload(sellerId))
  /\ LET rows == TransformRows(file) IN
     proc' = [proc EXCEPT ![p] =
                [IdleProc EXCEPT !.pc = IF rows = <<>> THEN "complete" ELSE "lookup",
                                 !.op = "upload", !.sellerId = sellerId,
                                 !.channel = ch, !.rows = rows, !.file = file, !.dataRows = Len(file),
                                 !.uploadId = Len(csvUploads) + 1]]
  /\ UNCHANGED <<products, settings, notifications, outbox>>

\* an upload for the default seller, received while no other request is in flight
BeginUpload(p) ==
  /\ AllIdle
  /\ \E ch \in Channels, file \in Files : StartUpload(p, DefaultSeller, ch, file)

\* an upload for the default seller, received while another upload is between
\* two of its store calls
BeginUploadConcurrent(p) ==
  /\ OthersUpload(p)
  /\ ops < MaxUploads
  /\ \E ch \in Channels, file \in Files : StartUpload(p, DefaultSeller, ch, file)

\* const existingProduct = await storage.getProductBySku(seller.id, row.sku)
UploadLookup(p) ==
  /\ proc[p].pc = "lookup"
  /\ LET row == Head(proc[p].rows) IN
     proc' = [proc EXCEPT ![p].pc = "merge",
                          ![p].row = <<row>>,
                          ![p].rows = Tail(proc[p].rows),
                          ![p].existing = getProductBySku(proc[p].sellerId, row.sku)]
  /\ UNCHANGED <<products, settings, notifications, outbox, ops, csvUploads>>

\* getSettingsBySellerId, then updateProduct or createProduct; processedCount++
UploadMerge(p) ==
  /\ proc[p].pc = "merge"
  /\ products' = MergeRow(products, proc[p].existing, proc[p].sellerId, proc[p].channel,
                          proc[p].row[1], settings[proc[p].sellerId].globalLowStockThreshold)
  /\ proc' = [proc EXCEPT ![p].pc = IF proc[p].rows = <<>> THEN "complete" ELSE "lookup",
                          ![p].processedCount = proc[p].processedCount + 1]
  /\ UNCHANGED <<settings, notifications, outbox, ops, csvUploads>>

\* after the loop: updateCsvUpload(status: "completed"), then the closing
\* reconcileInventory starts
UploadComplete(p) ==
  /\ proc[p].pc = "complete"
  /\ csvUploads' = [csvUploads EXCEPT ![proc[p].uploadId].status = "completed"]
  /\ EnterSweep(p, "upload", proc[p].sellerId,
                settings[proc[p].sellerId].globalLowStockThreshold, settings)
  /\ UNCHANGED <<products, settings, notifications, outbox, ops>>

\* one iteration of the loop of reconcileInventory
SweepStep(p) ==
  /\ proc[p].pc = "sweep"
  /\ proc[p].todo # <<>>
  /\ LET snap == Head(proc[p].todo)
         after == SweepProduct(products, snap, proc[p].globalThreshold)
     IN /\ products' = after
        /\ proc' = [proc EXCEPT ![p].todo = Tail(proc[p].todo), ![p].product = <<snap>>]
        /\ IF SweepShouldNotify(snap.product.isLowStock, after[snap.id].isLowStock,
                                snap.product.supplierId, proc[p].emailNotifications)
           THEN \E ok \in BOOLEAN :
                  /\ outbox' = Append(outbox, Mail(proc[p].sellerId, snap.id, "sweep", ok))
                  /\ notifications' = Append(notifications,
                                             AlertRecord(proc[p].sellerId, snap.id, "low_stock_alert", ok))
           ELSE UNCHANGED <<outbox, notifications>>
  /\ UNCHANGED <<settings, ops, csvUploads>>

\* reconcileInventory returns and the reconcile or settings request is answered
SweepFinish(p) ==
  /\ proc[p].pc = "sweep"
  /\ proc[p].op # "upload"
  /\ proc[p].todo = <<>>
  /\ proc' = [proc EXCEPT ![p] = IdleProc]
  /\ UNCHANGED <<products, settings, notifications, outbox, ops, csvUploads>>

\* the closing sweep of an upload returns: res.json({success, processedCount,
\* skippedCount, ...})
UploadRespond(p) ==
  /\ proc[p].pc = "sweep"
  /\ proc[p].op = "upload"
  /\ proc[p].todo = <<>>
  /\ proc' = [proc EXCEPT ![p].pc = "answered",
                          ![p].response = Response(200, "", proc[p].processedCount,
                                                   proc[p].skippedCount)]
  /\ UNCHANGED <<products, settings, notifications, outbox, ops, csvUploads>>

\* the handler of an answered upload returns
UploadDone(p) ==
  /\ proc[p].pc = "answered"
  /\ proc' = [proc EXCEPT ![p] = IdleProc]
  /\ UNCHANGED <<products, settings, notifications, outbox, ops, csvUploads>>

\* POST /api/upload with a file Papa.parse reports errors for: parseCSVIntelligently
\* throws before the upload record is created, the catch answers 400
BeginUploadMalformed(p) ==
  /\ AllIdle
  /\ Free(p)
  /\ ops < MaxOps
  /\ ops' = ops + 1
  /\ proc' = [proc EXCEPT ![p] =
                [IdleProc EXCEPT !.pc = "answered", !.op = "upload", !.failure = "parse",
                                 !.response = Response(400, "CSV auto-parsing failed", 0, 0)]]
  /\ UNCHANGED <<products, settings, notifications, outbox, csvUploads>>

\* POST /api/reconcile, for the default seller
StartReconcile(p) ==
  /\ AllIdle
  /\ Free(p)
  /\ ops < MaxOps
  /\ ops' = ops + 1
  /\ EnterSweep(p, "reconcile", DefaultSeller,
                settings[DefaultSeller].globalLowStockThreshold, settings)
  /\ UNCHANGED <<products, settings, notifications, outbox, csvUploads>>

\* PUT /api/settings, for the default seller: updateSettings, then the sweep
UpdateSettings(p) ==
  /\ AllIdle
  /\ Free(p)
  /\ ops < MaxOps
  /\ ops' = ops + 1
  /\ \E threshold \in SettingThresholds, email \in BOOLEAN :
       LET st == [settings EXCEPT ![DefaultSeller] =
                    [globalLowStockThreshold |-> threshold, emailNotifications |-> email]]
       IN /\ settings' = st
          /\ EnterSweep(p, "settings", DefaultSeller, threshold, st)
  /\ UNCHANGED <<products, notifications, outbox, csvUploads>>

\* PUT /api/products/:id
EditProductWith(id, patch, ok) ==
  /\ AllIdle
  /\ ops < MaxOps
  /\ ops' = ops + 1
  /\ LET current == products[id]
         st == settings[current.sellerId]
         product == EditedProduct(current, patch, st.globalLowStockThreshold)
     IN /\ products' = [products EXCEPT ![id] = product]
        /\ IF EditShouldNotify(st.emailNotifications, product.supplierId, current.isLowStock,
                               current.supplierId # NoSupplier, product.isLowStock,
                               "totalQuantity" \in patch.fields)
           THEN /\ outbox' = Append(outbox, Mail(current.sellerId, id, "edit", ok))
                /\ notifications' = Append(notifications,
                                           AlertRecord(current.sellerId, id, "low_stock_alert", ok))
           ELSE UNCHANGED <<outbox, notifications>>
  /\ UNCHANGED <<settings, proc, csvUploads>>

EditProduct ==
  \E id \in ProductIds, patch \in Patches, ok \in BOOLEAN : EditProductWith(id, patch, ok)

\* a timer tick or POST /api/auto-check-low-stock: getAllSellers
StartAutoCheck(p) ==
  /\ AllIdle
  /\ Free(p)
  /\ ops < MaxOps
  /\ ops' = ops + 1
  /\ proc' = [proc EXCEPT ![p] = [IdleProc EXCEPT !.pc = "autocheck", !.op = "autocheck",
                                                  !.sellers = SellerSeq]]
  /\ UNCHANGED <<products, settings, notifications, outbox, csvUploads>>

\* one seller of checkAndNotifyLowStock
AutoCheckSeller(p) ==
  /\ proc[p].pc = "autocheck"
  /\ proc[p].sellers # <<>>
  /\ LET sellerId == Head(proc[p].sellers)
         st == settings[sellerId]
         todo == getProductsBySellerId(sellerId)
     IN IF ~st.emailNotifications
        THEN UNCHANGED <<outbox, notifications>>
        ELSE \E oks \in [CheckIds(todo, st.globalLowStockThreshold) -> BOOLEAN] :
               LET mails == CheckMails(todo, sellerId, st.globalLowStockThreshold, "auto", oks)
               IN /\ outbox' = outbox \o mails
                  /\ notifications' = notifications \o CheckNotifications(mails, "auto_low_stock_alert")
  /\ proc' = [proc EXCEPT ![p].sellers = Tail(proc[p].sellers)]
  /\ UNCHANGED <<products, settings, ops, csvUploads>>

AutoCheckFinish(p) ==
  /\ proc[p].pc = "autocheck"
  /\ proc[p].sellers = <<>>
  /\ proc' = [proc EXCEPT ![p] = IdleProc]
  /\ UNCHANGED <<products, settings, notifications, outbox, ops, csvUploads>>

\* POST /api/check-and-send-low-stock-emails
ManualCheck ==
  /\ AllIdle
  /\ ops < MaxOps
  /\ ops' = ops + 1
  /\ \E sellerId \in Sellers :
       LET st == settings[sellerId]
           todo == getProductsBySellerId(sellerId)
       IN IF ~st.emailNotifications
          THEN UNCHANGED <<outbox, notifications>>
          ELSE \E oks \in [CheckIds(todo, st.globalLowStockThreshold) -> BOOLEAN] :
                 LET mails == CheckMails(todo, sellerId, st.globalLowStockThreshold, "manual", oks)
                 IN /\ outbox' = outbox \o mails
                    /\ notifications' = notifications \o CheckNotifications(mails, "manual_low_stock_alert")
  /\ UNCHANGED <<products, settings, proc, csvUploads>>

\* ------------------------------------------------- store calls that throw
\* files of valid rows, up to MaxBatchRows of them
BatchRows == {r \in FileRows : IsValidRow(TransformRow(r)) /\ r.quantity \in {<<"5">>, <<"1", "0">>}
                                /\ r.sku \in {<<"a">>, <<" ", "b">>}}
BatchFiles == UNION { [1..n -> BatchRows] : n \in 0..MaxBatchRows }

\* an upload of a file of several rows, received while no other request is in flight
BeginUploadBatch(p) ==
  /\ AllIdle
  /\ ops < MaxFaultyOps
  /\ \E ch \in Channels, file \in BatchFiles : StartUpload(p, DefaultSeller, ch, file)

\* storage.getSellerById throws: the outer catch answers 500 "Upload failed"
BeginUploadSellerFails(p) ==
  /\ AllIdle
  /\ Free(p)
  /\ ops < MaxFaultyOps
  /\ ops' = ops + 1
  /\ proc' = [proc EXCEPT ![p] =
                [IdleProc EXCEPT !.pc = "answered", !.op = "upload", !.failure = "store",
                                 !.response = Response(500, "Upload failed", 0, 0)]]
  /\ UNCHANGED <<products, settings, notifications, outbox, csvUploads>>

\* storage.createCsvUpload throws inside the inner try: catch (parseError) answers 400
BeginUploadRecordFails(p) ==
  /\ AllIdle
  /\ Free(p)
  /\ ops < MaxFaultyOps
  /\ ops' = ops + 1
  /\ proc' = [proc EXCEPT ![p] =
                [IdleProc EXCEPT !.pc = "answered", !.op = "upload", !.failure = "store",
                                 !.response = Response(400, "CSV auto-parsing failed", 0, 0)]]
  /\ UNCHANGED <<products, settings, notifications, outbox, csvUploads>>

\* a store call of the row loop (getProductBySku, getSettingsBySellerId,
\* updateProduct, createProduct), updateCsvUpload, or a store call of the closing
\* sweep throws: the loop is left, catch (parseError) answers 400 and the upload
\* record is not touched
UploadStoreFails(p) ==
  /\ proc[p].op = "upload"
  /\ \/ proc[p].pc \in {"lookup", "merge", "complete"}
     \/ proc[p].pc = "sweep" /\ proc[p].todo # <<>>
  /\ proc' = [proc EXCEPT ![p].pc = "answered", ![p].failure = "store",
                          ![p].response = Response(400, "CSV auto-parsing failed", 0, 0)]
  /\ UNCHANGED <<products, settings, notifications, outbox, ops, csvUploads>>

\* variant: the update of the product is undone when its notification throws
NotifyFailureRollsBack(before, after) == before

\* catch (error) { console.error(...) } around the notification of the sweep:
\* the product update made before the try is kept
NotifyFailureKeeps(before, after) == after

\* one iteration of the sweep in which getSupplierById throws (nothing is sent)
\* or createNotification throws (the alert is sent, no record is written)
SweepStepNotifyFails(p) ==
  /\ proc[p].pc = "sweep"
  /\ proc[p].todo # <<>>
  /\ LET snap == Head(proc[p].todo)
         after == SweepProduct(products, snap, proc[p].globalThreshold)
     IN /\ SweepShouldNotify(snap.product.isLowStock, after[snap.id].isLowStock,
                             snap.product.supplierId, proc[p].emailNotifications)
        /\ products' = NotifyFailureKeeps(products, after)
        /\ proc' = [proc EXCEPT ![p].todo = Tail(proc[p].todo), ![p].product = <<snap>>]
        /\ \/ UNCHANGED outbox
           \/ \E ok \in BOOLEAN :
                outbox' = Append(outbox, Mail(proc[p].sellerId, snap.id, "sweep", ok))
  /\ UNCHANGED <<settings, notifications, ops, csvUploads>>

\* the steps of an upload and of a sweep once started
UploadStep(p) ==
  \/ UploadLookup(p)
  \/ UploadMerge(p)
  \/ UploadComplete(p)
  \/ SweepStep(p)
  \/ UploadRespond(p)
  \/ UploadDone(p)

\* the steps of checkAndNotifyLowStock once started
CheckStep(p) ==
  \/ AutoCheckSeller(p)
  \/ AutoCheckFinish(p)

\* requests served one at a time
Next ==
  \/ \E p \in Procs : BeginUpload(p)
  \/ \E p \in Procs : BeginUploadMalformed(p)
  \/ \E p \in Procs : StartReconcile(p)
  \/ \E p \in Procs : SweepFinish(p)
  \/ \E p \in Procs : UpdateSettings(p)
  \/ \E p \in Procs : StartAutoCheck(p)
  \/ \E p \in Procs : UploadStep(p)
  \/ \E p \in Procs : CheckStep(p)
  \/ EditProduct
  \/ ManualCheck

Spec == Init /\ [][Next]_vars

\* uploads of the default seller that overlap: their store calls interleave
NextConcurrent ==
  \/ \E p \in Procs : BeginUploadConcurrent(p)
  \/ \E p \in Procs : UploadStep(p)

SpecConcurrent == Init /\ [][NextConcurrent]_vars

\* PUT /api/products/:id with a body that assigns a supplier
AssignSupplier ==
  /\ ops < MaxFaultyOps
  /\ \E id \in ProductIds, ok \in BOOLEAN :
       \E patch \in {x \in Patches : "supplierId" \in x.fields /\ x.supplierId # NoSupplier} :
         EditProductWith(id, patch, ok)

\* PUT /api/settings while store calls may throw
UpdateSettingsFaulty(p) == ops < MaxFaultyOps /\ UpdateSettings(p)

\* a malformed file while store calls may throw
BeginUploadMalformedFaulty(p) == ops < MaxFaultyOps /\ BeginUploadMalformed(p)

\* a timer tick (setInterval) or POST /api/auto-check-low-stock that arrives while
\* another low-stock check awaits a store or mail call: nothing holds it back
StartAutoCheckOverlapping(p) ==
  /\ Free(p)
  /\ \A q \in Procs \ {p} : proc[q].op \in {"none", "autocheck"}
  /\ ops < MaxOps
  /\ ops' = ops + 1
  /\ proc' = [proc EXCEPT ![p] = [IdleProc EXCEPT !.pc = "autocheck", !.op = "autocheck",
                                                  !.sellers = SellerSeq]]
  /\ UNCHANGED <<products, settings, notifications, outbox, csvUploads>>

\* the requests of Next, and low-stock checks that start while one is in flight
NextOverlap ==
  \/ Next
  \/ \E p \in Procs : StartAutoCheckOverlapping(p)

SpecOverlap == Init /\ [][NextOverlap]_vars

\* requests served one at a time, with store calls that may throw
NextFaulty ==
  \/ \E p \in Procs : BeginUploadBatch(p)
  \/ \E p \in Procs : BeginUploadMalformedFaulty(p)
  \/ \E p \in Procs : BeginUploadSellerFails(p)
  \/ \E p \in Procs : BeginUploadRecordFails(p)
  \/ \E p \in Procs : UploadStep(p)
  \/ \E p \in Procs : UploadStoreFails(p)
  \/ \E p \in Procs : SweepStepNotifyFails(p)
  \/ \E p \in Procs : UpdateSettingsFaulty(p)
  \/ \E p \in Procs : SweepFinish(p)
  \/ AssignSupplier

SpecFaulty == Init /\ [][NextFaulty]_vars

\* POST /api/upload with the sellerId of any seller in the body, received while
\* no other request is in flight
BeginUploadTenant(p) ==
  /\ AllIdle
  /\ ops < MaxTenantOps
  /\ \E sellerId \in Sellers, ch \in Channels, file \in Files :
       StartUpload(p, sellerId, ch, file)

\* POST /api/reconcile and PUT /api/settings: always the default seller
StartReconcileTenant(p) == ops < MaxTenantOps /\ StartReconcile(p)
UpdateSettingsTenant(p) == ops < MaxTenantOps /\ UpdateSettings(p)

\* uploads of several sellers, sweeps and settings updates, one request at a time
NextTenants ==
  \/ \E p \in Procs : BeginUploadTenant(p)
  \/ \E p \in Procs : UploadStep(p)
  \/ \E p \in Procs : StartReconcileTenant(p)
  \/ \E p \in Procs : UpdateSettingsTenant(p)
  \/ \E p \in Procs : SweepFinish(p)

SpecTenants == Init /\ [][NextTenants]_vars

\* parseCSVIntelligently on the header row of a file: every header row and
\* every file name, the detection applied to them
InitDetect ==
  /\ products = <<>>
  /\ settings = [s \in Sellers |->
                   [globalLowStockThreshold |-> DefaultThreshold, emailNotifications |-> FALSE]]
  /\ notifications = <<>>
  /\ outbox = <<>>
  /\ ops = 0
  /\ csvUploads = <<>>
  /\ \E headers \in HeaderLists, filename \in Filenames :
       proc = [p \in Procs |->
                 IF ProcOrder[p] = 1
                 THEN [IdleProc EXCEPT !.pc = "parse", !.op = "upload",
                                       !.headers = headers, !.filename = filename]
                 ELSE IdleProc]

ParseHeaders(p) ==
  /\ proc[p].pc = "parse"
  /\ proc' = [proc EXCEPT ![p].pc = "detected",
                          ![p].detectedFormat = FinalDetection(proc[p].headers, proc[p].filename)]
  /\ UNCHANGED <<products, settings, notifications, outbox, ops, csvUploads>>

NextDetect == \E p \in Procs : ParseHeaders(p)

SpecDetect == InitDetect /\ [][NextDetect]_vars

\* ------------------------------------------------------------- properties
\* a request that has just merged a row into a product that existed
JustMerged(p) ==
  /\ proc[p].op = "upload"
  /\ proc[p].pc \in {"lookup", "complete"}
  /\ proc[p].row # <<>>
  /\ proc[p].existing # <<>>

\* C1: in every reachable state each product's totalQuantity is the sum of the
\* quantities of its channels list
C1_TotalIsChannelSum ==
  \A id \in ProductIds :
    products[id].totalQuantity = SumQuantity(products[id].channels)

\* C2: when no request is in flight (every operation has completed), every
\* product has isLowStock = (totalQuantity <= its lowStockThreshold); every
\* stored product carries a threshold of its own, 0 included
C2_LowStockMatchesThreshold ==
  AllIdle =>
    \A id \in ProductIds :
      products[id].isLowStock
        = (products[id].totalQuantity <= products[id].lowStockThreshold)

\* C3: a row merge of channel C with quantity Q into an existing product
\* leaves exactly one entry for C, with quantity Q, and the entries of every
\* other channel as they were
C3_MergeReplacesOneChannel ==
  \A p \in Procs :
    JustMerged(p) =>
      LET found == proc[p].existing[1]
          chs == products[found.id].channels
          C == proc[p].channel
          Q == RowQuantity(proc[p].row[1])
      IN /\ OnlyChannel(chs, C) = << [channel |-> C, quantity |-> Q] >>
         /\ \A D \in Channels \ {C} :
              OnlyChannel(chs, D) = OnlyChannel(found.product.channels, D)

\* a merge into a product that had an entry of the same channel with another
\* quantity, and an entry of the other channel
C3_Witness ==
  \E p \in Procs :
    /\ JustMerged(p)
    /\ LET before == proc[p].existing[1].product.channels
           C == proc[p].channel
       IN /\ OnlyChannel(before, C) # <<>>
          /\ OnlyChannel(before, C)[1].quantity # RowQuantity(proc[p].row[1])
          /\ \E D \in Channels \ {C} : OnlyChannel(before, D) # <<>>

\* C4: in every reachable state each product's channels list holds at most
\* one entry per channel
C4_OneEntryPerChannel ==
  \A id \in ProductIds : \A ch \in Channels :
    Len(OnlyChannel(products[id].channels, ch)) <= 1

\* C5: at any time there is at most one product per (seller, sku), also while
\* uploads of one seller interleave at their store calls
C5_OneProductPerSku ==
  \A i \in ProductIds, j \in ProductIds :
    (products[i].sellerId = products[j].sellerId /\ products[i].sku = products[j].sku)
      => i = j

\* a sweep whose loop has handled every product of its snapshot, the last of
\* them being proc[p].product
SweepDone(p) ==
  /\ proc[p].pc = "sweep"
  /\ proc[p].todo = <<>>
  /\ proc[p].product # <<>>

\* C6: when a sweep has run over a seller's products, a second run with the
\* same threshold and no mutation in between leaves every product (channels,
\* totalQuantity, lowStockThreshold, isLowStock) as the first run left it
C6_SweepIdempotent ==
  \A p \in Procs :
    (proc[p].pc = "sweep" /\ proc[p].todo = <<>>) =>
      reconcileInventory(products, proc[p].sellerId, proc[p].globalThreshold) = products

\* a first run that changed the product it handled last
C6_Witness ==
  \E p \in Procs :
    /\ SweepDone(p)
    /\ products[proc[p].product[1].id] # proc[p].product[1].product
    /\ reconcileInventory(products, proc[p].sellerId, proc[p].globalThreshold) = products

\* the alerts and the notification records a step adds
NewMails == {outbox'[i] : i \in (Len(outbox) + 1)..Len(outbox')}
NewRecords == {notifications'[i] : i \in (Len(notifications) + 1)..Len(notifications')}

\* C7: while a seller's emailNotifications is false, no step of any operation
\* sends an alert or creates a notification record for that seller
C7_NoAlertWhileDisabled ==
  [][\A s \in Sellers :
       ~settings[s].emailNotifications =>
         /\ \A m \in NewMails : m.sellerId # s
         /\ \A n \in NewRecords : n.sellerId # s]_vars

\* a sweep has handled a low-stock product with a supplier of a seller whose
\* notifications are off, and nothing was sent
C7_Witness ==
  \E p \in Procs :
    /\ SweepDone(p)
    /\ ~settings[proc[p].sellerId].emailNotifications
    /\ products[proc[p].product[1].id].isLowStock
    /\ products[proc[p].product[1].id].supplierId # NoSupplier
    /\ outbox = <<>>
    /\ notifications = <<>>

\* the condition of C8 on one edit, from the product before and after it
EditAlertExpected(before, after, patch) ==
  /\ settings[before.sellerId].emailNotifications
  /\ after.supplierId # NoSupplier
  /\ after.isLowStock
  /\ \/ ~before.isLowStock
     \/ before.supplierId = NoSupplier
     \/ /\ "totalQuantity" \in patch.fields
        /\ before.isLowStock
        /\ before.supplierId # NoSupplier

MailCount(id, ok) ==
  Cardinality({i \in 1..Len(outbox) : outbox[i].productId = id /\ outbox[i].delivered = ok})
RecordCount(id, status) ==
  Cardinality({i \in 1..Len(notifications) :
                 notifications[i].productId = id /\ notifications[i].status = status})

\* C10: every alert handed to the email service has exactly one notification
\* record, with status sent when it was delivered and failed when it was not
C10_OneRecordPerAlert ==
  \A id \in ProductIds :
    /\ MailCount(id, TRUE) = RecordCount(id, "sent")
    /\ MailCount(id, FALSE) = RecordCount(id, "failed")

\* an upload that has been answered with success
AnsweredOk(p) ==
  /\ proc[p].pc = "answered"
  /\ proc[p].response.status = 200

\* C12: in the answer of a successful upload processedCount + skippedCount is
\* the number of data rows of the file: every row is either merged or counted
\* as skipped
C12_CountsCoverFile ==
  \A p \in Procs :
    AnsweredOk(p) =>
      proc[p].response.processedCount + proc[p].response.skippedCount = proc[p].dataRows

\* a text that is an integer: an optional sign, then digits only
IsInteger(text) ==
  LET body == IF text # <<>> /\ Head(text) \in {"-", "+"} THEN Tail(text) ELSE text
  IN body # <<>> /\ \A i \in 1..Len(body) : body[i] \in Digits

\* a data row whose SKU, name and quantity are non-empty after trimming and
\* whose quantity is an integer
Acceptable(r) ==
  /\ Trim(r.sku) # <<>>
  /\ Trim(r.productName) # <<>>
  /\ Trim(r.quantity) # <<>>
  /\ IsInteger(Trim(r.quantity))

\* the acceptable rows of a file, trimmed, in file order
AcceptedRows(file) ==
  LET kept == SelectSeq(file, Acceptable)
  IN [i \in 1..Len(kept) |-> TransformRow(kept[i])]

\* the rows an upload in its row loop has still to merge
RowsToMerge(p) ==
  (IF proc[p].pc = "merge" THEN proc[p].row ELSE <<>>) \o proc[p].rows

\* C13: the rows an upload merges are exactly the rows of its file whose SKU,
\* name and quantity are non-empty after trimming and whose quantity is an
\* integer, in file order
C13_MergedIffAcceptable ==
  \A p \in Procs :
    (proc[p].op = "upload" /\ proc[p].pc \in {"lookup", "merge", "complete"}) =>
      LET accepted == AcceptedRows(proc[p].file)
      IN RowsToMerge(p) = SubSeq(accepted, proc[p].processedCount + 1, Len(accepted))

\* the ids a sweep in flight has still to handle
TodoIds(p) == {proc[p].todo[i].id : i \in 1..Len(proc[p].todo)}

\* a product as the sweep leaves it: total, threshold and flag recomputed
Swept(product, globalThreshold) ==
  LET total == SweepTotal(product)
      threshold == SweepThreshold(product, globalThreshold)
  IN /\ product.totalQuantity = total
     /\ product.lowStockThreshold = threshold
     /\ product.isLowStock = SweepIsLowStock(total, threshold)

\* C11: whatever happens to the notifications of a sweep (delivery failed, the
\* supplier lookup or the notification write threw), every product the sweep
\* has handled so far holds its update, and the sweep goes on to the others
C11_UpdatesSurviveDeliveryFailure ==
  \A p \in Procs :
    proc[p].pc = "sweep" =>
      \A id \in ProductIds \ TodoIds(p) :
        products[id].sellerId = proc[p].sellerId
          => Swept(products[id], proc[p].globalThreshold)

\* a sweep has changed a product, its alert was sent and the notification
\* write threw (an alert without a record), and the sweep has gone on to the end
C11_Witness ==
  \E p \in Procs :
    /\ proc[p].pc = "sweep"
    /\ proc[p].todo = <<>>
    /\ \E i \in 1..Len(outbox) :
         /\ outbox[i].source = "sweep"
         /\ RecordCount(outbox[i].productId, "sent") + RecordCount(outbox[i].productId, "failed")
              < MailCount(outbox[i].productId, TRUE) + MailCount(outbox[i].productId, FALSE)
         /\ Swept(products[outbox[i].productId], proc[p].globalThreshold)
    /\ proc[p].product # <<>>
    /\ products[proc[p].product[1].id] # proc[p].product[1].product

\* C14: once an upload is answered its upload record exists and is in a terminal
\* status, completed or error, and completed when the answer is a success
C14_UploadRecordTerminal ==
  \A p \in Procs :
    (proc[p].pc = "answered" /\ proc[p].op = "upload") =>
      /\ proc[p].uploadId # 0
      /\ csvUploads[proc[p].uploadId].status \in {"completed", "error"}
      /\ proc[p].response.status = 200 => csvUploads[proc[p].uploadId].status = "completed"

\* an answered upload in which a store call failed before the loop was over
FailedInLoop(p) ==
  /\ proc[p].pc = "answered"
  /\ proc[p].failure = "store"
  /\ proc[p].uploadId # 0
  /\ csvUploads[proc[p].uploadId].status = "processing"

\* C15: when a store call fails while a row is merged, the rows after it are
\* merged all the same and the upload is answered with its counts
C15_BatchContinuesAfterStoreFailure ==
  \A p \in Procs :
    FailedInLoop(p) =>
      /\ proc[p].rows = <<>>
      /\ proc[p].response.status = 200

\* C16: only a CSV parse failure is answered as bad input (status 400); a store
\* failure is never answered that way
C16_OnlyParseFailureIsBadInput ==
  \A p \in Procs :
    (proc[p].pc = "answered" /\ proc[p].response.status = 400) => proc[p].failure = "parse"

\* C17: at most one low-stock check (checkAndNotifyLowStock) is in flight,
\* whether started by the timer or by POST /api/auto-check-low-stock
C17_OneCheckInFlight ==
  Cardinality({p \in Procs : proc[p].op = "autocheck"}) <= 1

\* a request whose header row has been through the detection
Detected(p) == proc[p].pc = "detected"

\* the header row has a header that is, trimmed and in lower case, the required one
HasHeader(headers, required) ==
  \E i \in 1..Len(headers) : Normalized(headers[i]) = required
HasAllRequired(headers, signature) ==
  /\ HasHeader(headers, signature.sku)
  /\ HasHeader(headers, signature.productName)
  /\ HasHeader(headers, signature.quantity)

\* the format names the platform with confidence at least 0.9, and its three
\* columns are headers of the row that match the platform's required headers
PlatformDetected(d, headers, format, channel, signature) ==
  /\ d.format = format
  /\ d.channel = channel
  /\ ~DoubleLess(d.confidence, DoubleOf(9, 10))
  /\ \E i \in 1..Len(headers) :
       d.mappings.sku = headers[i] /\ Normalized(headers[i]) = signature.sku
  /\ \E i \in 1..Len(headers) :
       d.mappings.productName = headers[i] /\ Normalized(headers[i]) = signature.productName
  /\ \E i \in 1..Len(headers) :
       d.mappings.quantity = headers[i] /\ Normalized(headers[i]) = signature.quantity

\* C18: a header row with all three required headers of exactly one platform
\* is detected as that platform and its channel, with confidence at least 0.9
\* and the matched headers as the three columns
C18_CanonicalHeadersDetectPlatform ==
  \A p \in Procs :
    Detected(p) =>
      /\ (HasAllRequired(proc[p].headers, AmazonSignature)
            /\ ~HasAllRequired(proc[p].headers, ShopifySignature))
           => PlatformDetected(proc[p].detectedFormat, proc[p].headers,
                               "amazon", "Amazon", AmazonSignature)
      /\ (HasAllRequired(proc[p].headers, ShopifySignature)
            /\ ~HasAllRequired(proc[p].headers, AmazonSignature))
           => PlatformDetected(proc[p].detectedFormat, proc[p].headers,
                               "shopify", "Shopify", ShopifySignature)

\* the first header of the row, in header order, among those at the positions idx
FirstHeader(headers, idx) ==
  IF idx = {} THEN <<>> ELSE headers[CHOOSE i \in idx : \A j \in idx : i <= j]

\* the file name implies a channel
FilenameImpliesChannel(filename) ==
  IncludesAny(ToLowerCase(filename),
              { <<"a", "m", "a", "z", "o", "n">>, <<"a", "m", "z">>,
                <<"s", "h", "o", "p", "i", "f", "y">>, <<"s", "h", "o", "p">> })

\* no platform signature scores 0.7
NoPlatformTrusted(headers) ==
  /\ DoubleLess(amazonScore(headers).score, DoubleOf(7, 10))
  /\ DoubleLess(shopifyScore(headers).score, DoubleOf(7, 10))

\* C19: when neither platform scores 0.7 the format is generic, its confidence
\* is exactly 0.6, or 0.8 when the file name implies a channel, and each column
\* is the first header that matches the keywords of its field, whatever the
\* other columns are
C19_GenericFallback ==
  \A p \in Procs :
    (Detected(p) /\ NoPlatformTrusted(proc[p].headers)) =>
      LET headers == proc[p].headers
          d == proc[p].detectedFormat
          positions == 1..Len(headers)
      IN /\ d.format = "generic"
         /\ d.confidence = IF FilenameImpliesChannel(proc[p].filename)
                           THEN DoubleOf(8, 10) ELSE DoubleOf(6, 10)
         /\ d.mappings.sku =
              FirstHeader(headers, {i \in positions : MatchesSku(Normalized(headers[i]))})
         /\ d.mappings.productName =
              FirstHeader(headers, {i \in positions : MatchesName(Normalized(headers[i]))})
         /\ d.mappings.quantity =
              FirstHeader(headers, {i \in positions : MatchesQuantity(Normalized(headers[i]))})

\* a generic format after a platform scored something, with a file name that
\* implies a channel, one header that fills two columns and a later header
\* that matches the sku keywords too
C19_Witness ==
  \E p \in Procs :
    /\ Detected(p)
    /\ NoPlatformTrusted(proc[p].headers)
    /\ DoubleLess(DoubleOf(3, 10), shopifyScore(proc[p].headers).score)
    /\ proc[p].detectedFormat.confidence = DoubleOf(8, 10)
    /\ proc[p].detectedFormat.mappings.sku # <<>>
    /\ proc[p].detectedFormat.mappings.sku = proc[p].detectedFormat.mappings.productName
    /\ \E i \in 1..Len(proc[p].headers) :
         /\ proc[p].headers[i] # proc[p].detectedFormat.mappings.sku
         /\ MatchesSku(Normalized(proc[p].headers[i]))

\* the number 1
DoubleOne == [exp |-> 0, man |-> <<1>> \o Zeros(MantissaBits - 1)]

\* C20: the confidence of a detected format lies between 0 and 1
C20_ConfidenceInUnitInterval ==
  \A p \in Procs :
    Detected(p) =>
      /\ ~DoubleLess(proc[p].detectedFormat.confidence, DoubleZero)
      /\ ~DoubleLess(DoubleOne, proc[p].detectedFormat.confidence)

\* a request that is between two of its store calls
Active(p) == proc[p].pc # "idle"

\* C21: a step of an upload or of a sweep for one seller changes no product of
\* another seller and creates products only under its own seller
C21_TenantIsolation ==
  [][\A id \in 1..Len(products') :
       (id > Len(products) \/ products'[id] # products[id])
         => \E p \in Procs : Active(p) /\ products'[id].sellerId = proc[p].sellerId]_vars

\* an upload of the second seller has merged a row into its own product while
\* the default seller holds a product with the same sku
C21_Witness ==
  \E p \in Procs :
    /\ JustMerged(p)
    /\ proc[p].sellerId # DefaultSeller
    /\ \E i, j \in ProductIds :
         /\ products[i].sellerId = DefaultSeller
         /\ products[j].sellerId = proc[p].sellerId
         /\ products[i].sku = products[j].sku
         /\ products[i].channels # products[j].channels

\* C28: when the sweep of a settings update has completed, every product of
\* the seller (all created by uploads, none edited) is flagged against the new
\* global threshold: isLowStock = (totalQuantity <= G)
C28_NewGlobalThresholdApplies ==
  \A p \in Procs :
    (proc[p].pc = "sweep" /\ proc[p].op = "settings" /\ proc[p].todo = <<>>) =>
      \A id \in ProductIds :
        products[id].sellerId = proc[p].sellerId =>
          products[id].isLowStock =
            (products[id].totalQuantity <= settings[proc[p].sellerId].globalLowStockThreshold)

\* an upload whose row loop has just ended
LoopEnded(p) == proc[p].op = "upload" /\ proc[p].pc = "complete"

\* the quantity the product of the seller with this sku holds for the channel
\* is exactly q
HoldsForChannel(sellerId, sku, ch, q) ==
  \E id \in ProductIds :
    /\ products[id].sellerId = sellerId
    /\ products[id].sku = sku
    /\ OnlyChannel(products[id].channels, ch) = << [channel |-> ch, quantity |-> q] >>

\* C22: the rows of a file are merged in file order: when the loop has ended,
\* for every row that is the last of its SKU in the file the product holds that
\* row's quantity for the upload's channel, and processedCount counts every row
C22_RowsMergedInFileOrder ==
  \A p \in Procs :
    LoopEnded(p) =>
      LET rows == AcceptedRows(proc[p].file) IN
      /\ proc[p].processedCount = Len(rows)
      /\ \A i \in 1..Len(rows) :
           (\A j \in (i + 1)..Len(rows) : rows[j].sku # rows[i].sku)
             => HoldsForChannel(proc[p].sellerId, rows[i].sku, proc[p].channel,
                                ParseInt(rows[i].quantity).value)

\* a file with two rows for one SKU and different quantities has been merged
C22_Witness ==
  \E p \in Procs :
    /\ LoopEnded(p)
    /\ Len(proc[p].file) = 2
    /\ Trim(proc[p].file[1].sku) = Trim(proc[p].file[2].sku)
    /\ proc[p].file[1].quantity # proc[p].file[2].quantity
    /\ proc[p].processedCount = 2

\* an upload that has just merged the row proc[p].row, in either branch
RowMerged(p) ==
  /\ proc[p].op = "upload"
  /\ proc[p].pc \in {"lookup", "complete"}
  /\ proc[p].row # <<>>

\* C23: the row merge sets isLowStock with the inclusive comparison: a new
\* product has channels = [{C, Q}], totalQuantity = Q, the global threshold and
\* isLowStock = (Q <= global threshold); an existing product has
\* isLowStock = (new total <= its threshold)
C23_MergeComparesInclusive ==
  \A p \in Procs :
    RowMerged(p) =>
      LET product == getProductBySku(proc[p].sellerId, proc[p].row[1].sku)[1].product
          q == RowQuantity(proc[p].row[1])
          global == settings[proc[p].sellerId].globalLowStockThreshold
      IN IF proc[p].existing = <<>>
         THEN /\ product.channels = << [channel |-> proc[p].channel, quantity |-> q] >>
              /\ product.totalQuantity = q
              /\ product.lowStockThreshold = global
              /\ product.isLowStock = (q <= global)
         ELSE product.isLowStock = (product.totalQuantity <= product.lowStockThreshold)

\* a sweep that has just written the product of the snapshot proc[p].product
SweptOne(p) == proc[p].pc = "sweep" /\ proc[p].product # <<>>

\* C24: after the sweep has written a product, the product's lowStockThreshold
\* is the threshold the product had before, for every value including 0
C24_SweepKeepsOwnThreshold ==
  \A p \in Procs :
    SweptOne(p) =>
      products[proc[p].product[1].id].lowStockThreshold =
        proc[p].product[1].product.lowStockThreshold

\* C25: every channel quantity in the store is a non-negative integer
C25_QuantitiesNonNegative ==
  \A id \in ProductIds :
    \A i \in 1..Len(products[id].channels) :
      products[id].channels[i].quantity \in Nat

\* the file name, lower-cased, contains the text
NameHas(filename, text) == Includes(ToLowerCase(filename), text)
NamesAmazon(filename) ==
  NameHas(filename, <<"a", "m", "a", "z", "o", "n">>) \/ NameHas(filename, <<"a", "m", "z">>)
NamesShopify(filename) ==
  NameHas(filename, <<"s", "h", "o", "p", "i", "f", "y">>) \/ NameHas(filename, <<"s", "h", "o", "p">>)

\* C26: a detected Amazon or Shopify platform keeps its own channel and its
\* score whatever the file name; a generic detection takes the channel from the
\* file name (Amazon before Shopify, Amazon when the name says nothing) and
\* gains 0.2 exactly when the file name names a channel
C26_FilenameOnlyGuidesGeneric ==
  \A p \in Procs :
    Detected(p) =>
      LET d == proc[p].detectedFormat
          fromHeaders == intelligentFormatDetection(proc[p].headers)
          filename == proc[p].filename
      IN /\ d.format = fromHeaders.format
         /\ d.format = "amazon" => d.channel = "Amazon" /\ d.confidence = fromHeaders.confidence
         /\ d.format = "shopify" => d.channel = "Shopify" /\ d.confidence = fromHeaders.confidence
         /\ d.format = "generic" =>
              /\ d.channel = IF NamesAmazon(filename) THEN "Amazon"
                             ELSE IF NamesShopify(filename) THEN "Shopify"
                             ELSE "Amazon"
              /\ d.confidence = IF NamesAmazon(filename) \/ NamesShopify(filename)
                                THEN DoubleAdd(GenericConfidence, FilenameBonus)
                                ELSE GenericConfidence

\* a Shopify header row arrived in a file whose name says Amazon
C26_Witness ==
  \E p \in Procs :
    /\ Detected(p)
    /\ proc[p].detectedFormat.format = "shopify"
    /\ NamesAmazon(proc[p].filename)

\* C27: a detected Amazon or Shopify platform comes with all three mapping
\* fields set to a header name
C27_PlatformMappingsComplete ==
  \A p \in Procs :
    (Detected(p) /\ proc[p].detectedFormat.format \in {"amazon", "shopify"}) =>
      /\ proc[p].detectedFormat.mappings.sku # <<>>
      /\ proc[p].detectedFormat.mappings.productName # <<>>
      /\ proc[p].detectedFormat.mappings.quantity # <<>>

\* C29: once the interleaved uploads have finished, every product's
\* totalQuantity is the sum of its channel quantities
C29_TotalsSettleAfterUploads ==
  AllIdle =>
    \A id \in ProductIds :
      products[id].totalQuantity = SumQuantity(products[id].channels)

\* the two uploads have both ended their row loops, each having merged its
\* last row into the same product, which existed, for different channels
BothMergedInto(p, q, id) ==
  /\ p # q
  /\ LoopEnded(p) /\ LoopEnded(q)
  /\ proc[p].existing # <<>> /\ proc[q].existing # <<>>
  /\ proc[p].existing[1].id = id /\ proc[q].existing[1].id = id
  /\ proc[p].channel # proc[q].channel

\* C30: when two uploads have written different channels of one existing
\* product, the product holds the quantity of each upload for its channel
C30_BothChannelsKept ==
  \A p \in Procs, q \in Procs, id \in ProductIds :
    BothMergedInto(p, q, id) =>
      OnlyChannel(products[id].channels, proc[p].channel)
        = << [channel |-> proc[p].channel, quantity |-> RowQuantity(proc[p].row[1])] >>

====
